---------------------------- MODULE Spec2Model ----------------------------
(***************************************************************************)
(* Model of the school app's ORM models (app/school/models.py):            *)
(* ClassLevel, AcademicTerm, ClassTermFees and Learner, with their save    *)
(* hooks, validation and derived computations.                             *)
(*                                                                         *)
(* Conventions                                                             *)
(*   - a Python str is a sequence of one-character strings;                *)
(*   - a date is its day ordinal counted from 2025-01-01 (an integer), so  *)
(*     dates compare and subtract as datetime.date does;                   *)
(*   - an Optional value is <<>> (None) or <<v>>;                          *)
(*   - money is a whole number of cents (Decimal with two places);         *)
(*   - a raised exception is the outcome's name, "ok" when none is raised. *)
(***************************************************************************)
EXTENDS Integers, Sequences, FiniteSets, TLC

VARIABLES
    classLevels,  \* ClassLevel table: set of rows
    terms,        \* AcademicTerm table: set of rows
    fees,         \* ClassTermFees table: set of rows
    learners,     \* Learner table: set of rows
    nextPk,       \* next auto-increment primary key of the Learner table
    today,        \* date.today()
    proc,         \* per request: the Learner.save call in flight, if any
    last          \* the last completed operation and how it ended

vars == <<classLevels, terms, fees, learners, nextPk, today, proc, last>>

---------------------------------------------------------------------------
(* Bounds of the model *)

\* Learner rows ever inserted (the primary keys handed out) when learners are
\* only admitted.
MaxAdmitted == 3

\* Learner rows ever inserted when learners are also edited and deleted.
MaxLearners == 2

\* Concurrent requests.
Procs == {"r1", "r2"}

---------------------------------------------------------------------------
(* Optional values and strings *)

None == <<>>

Some(v) == <<v>>

Val(o) == o[1]

Min(a, b) == IF a < b THEN a ELSE b

\* str.startswith
StartsWith(s, p) == Len(p) <= Len(s) /\ SubSeq(s, 1, Len(p)) = p

\* s[2:]
DropTwo(s) == SubSeq(s, 3, Len(s))

\* s[:3]
TakeThree(s) == SubSeq(s, 1, Min(3, Len(s)))

DigitChars == <<"0", "1", "2", "3", "4", "5", "6", "7", "8", "9">>

LowerChars == <<"a", "b", "c", "d", "e", "f", "g", "h", "i", "j", "k", "l", "m",
                "n", "o", "p", "q", "r", "s", "t", "u", "v", "w", "x", "y", "z">>

UpperChars == <<"A", "B", "C", "D", "E", "F", "G", "H", "I", "J", "K", "L", "M",
                "N", "O", "P", "Q", "R", "S", "T", "U", "V", "W", "X", "Y", "Z">>

\* str.upper on one character
UpperChar(c) ==
    IF \E i \in 1..Len(LowerChars) : LowerChars[i] = c
    THEN UpperChars[CHOOSE i \in 1..Len(LowerChars) : LowerChars[i] = c]
    ELSE c

\* str.upper
Upper(s) == [i \in 1..Len(s) |-> UpperChar(s[i])]

\* str(n) for a natural number
RECURSIVE Str(_)
Str(n) == IF n < 10 THEN <<DigitChars[n + 1]>>
          ELSE Str(n \div 10) \o <<DigitChars[(n % 10) + 1]>>

\* f"{n:03d}": at least three digits, zero-padded on the left
RECURSIVE PadThree(_)
PadThree(s) == IF Len(s) >= 3 THEN s ELSE PadThree(<<"0">> \o s)

\* date.year of a day ordinal (2025, 2026 and 2027 have 365 days)
YearOf(d) == 2025 + (d \div 365)

---------------------------------------------------------------------------
(* ClassLevel *)

BEGINNER == <<"b", "e", "g", "i", "n", "n", "e", "r">>
PP1 == <<"p", "p", "1">>
PP2 == <<"p", "p", "2">>
GRADE1 == <<"g", "r", "a", "d", "e", "1">>
GRADE2 == <<"g", "r", "a", "d", "e", "2">>

\* choice[0] for choice in MODEL_CHOICES, in order
MODEL_CHOICES == <<BEGINNER, PP1, PP2, GRADE1, GRADE2>>

\* ClassLevel.save: class_order from the position in MODEL_CHOICES, else 999
ClassOrder(name) ==
    IF \E i \in 1..Len(MODEL_CHOICES) : MODEL_CHOICES[i] = name
    THEN (CHOOSE i \in 1..Len(MODEL_CHOICES) : MODEL_CHOICES[i] = name)
    ELSE 999

\* the row ClassLevel.save persists
ClassLevelRow(name, admission, assessment) ==
    [name |-> name, class_order |-> ClassOrder(name),
     admission_fee |-> admission, assessment_fee |-> assessment]


\* A class level name outside MODEL_CHOICES
GRADE3 == <<"g", "r", "a", "d", "e", "3">>

\* save with class_order set only where the instance has none yet
ClassLevelSaveKeepOrder(inst, rows) ==
    LET row == [name |-> inst.name,
                class_order |-> IF inst.class_order = None THEN ClassOrder(inst.name)
                                ELSE Val(inst.class_order),
                admission_fee |-> inst.admission_fee,
                assessment_fee |-> inst.assessment_fee]
        others == {r \in rows : inst.loaded = None \/ r.name # Val(inst.loaded)}
    IN  IF \E r \in others : r.name = inst.name
        THEN [outcome |-> "IntegrityError", rows |-> rows]
        ELSE [outcome |-> "ok", rows |-> others \cup {row}]

\* ClassLevel.save: class_order is set from the name, then super().save
\* inserts the row of a new instance or updates the row the instance was
\* loaded from (loaded is the name that row has); unique=True on name rejects
\* a name another row holds.
ClassLevelSave(inst, rows) ==
    LET row == ClassLevelRow(inst.name, inst.admission_fee, inst.assessment_fee)
        others == {r \in rows : inst.loaded = None \/ r.name # Val(inst.loaded)}
    IN  IF \E r \in others : r.name = inst.name
        THEN [outcome |-> "IntegrityError", rows |-> rows]
        ELSE [outcome |-> "ok", rows |-> others \cup {row}]

\* ClassLevel(name=n, ...), class_order unset, or a stored class level with
\* its name or its fees reassigned (class_order as loaded)
ClassLevelInstances(rows, names, amounts) ==
    {[loaded |-> None, name |-> n, class_order |-> None, admission_fee |-> a[1],
      assessment_fee |-> a[2]] : n \in names, a \in amounts}
      \cup
    UNION {{[loaded |-> Some(r.name), name |-> n, class_order |-> Some(r.class_order),
             admission_fee |-> a[1], assessment_fee |-> a[2]] :
               n \in names, a \in amounts} : r \in rows}

\* ClassLevel.save called on the instance
SaveClassLevel(inst) ==
    /\ LET w == ClassLevelSave(inst, classLevels)
       IN  /\ classLevels' = w.rows
           /\ last' = [op |-> "class_save", outcome |-> w.outcome, given |-> inst]
    /\ UNCHANGED <<terms, fees, learners, nextPk, today, proc>>

\* The names and the admission and assessment fees (in cents) tried
ClassNames == {BEGINNER, PP1, GRADE2, GRADE3}

ClassAmounts == {<<0, 0>>, <<50000, 25000>>}


---------------------------------------------------------------------------
(* Learner *)

\* A Learner instance in memory: pk is None until the row is inserted,
\* admission_date is None until auto_now_add fills it on insert.
NoInst == [pk |-> None, class_level |-> <<>>, admission_date |-> None,
           student_id |-> <<>>]

\* hasattr(self, "admission_date"): every model instance carries an attribute
\* for each of its fields, set or None.
HasAdmissionDate(inst) == "admission_date" \in DOMAIN inst

\* self.class_level.name[:3].upper()
ClassCode(name) == Upper(TakeThree(name))

\* Learner.objects.filter(student_id__startswith=prefix).count()
ExistingCount(rows, prefix) ==
    Cardinality({r \in rows : StartsWith(r.student_id, prefix)})

\* The format with the count itself as the sequence number
FormatStudentIdFromCount(year, code, count) == year \o code \o PadThree(Str(count))

\* f"{year}{class_code}{existing_count + 1:03d}"
FormatStudentId(year, code, count) == year \o code \o PadThree(Str(count + 1))

\* The ID generation run on every save, whether or not the instance has an ID
GenerateStudentIdAlways(inst, rows, day) ==
    IF inst.admission_date = None
    THEN [outcome |-> "AttributeError", inst |-> inst, existing_count |-> None]
    ELSE LET year == DropTwo(Str(YearOf(Val(inst.admission_date))))
             class_code == ClassCode(inst.class_level)
             existing_count == ExistingCount(rows, year \o class_code)
         IN  [outcome |-> "ok",
              inst |-> [inst EXCEPT !.student_id =
                            FormatStudentId(year, class_code, existing_count)],
              existing_count |-> Some(existing_count)]

\* Learner.save up to the call of super().save: the instance after the
\* student ID generation, or the exception raised by it.
GenerateStudentId(inst, rows, day) ==
    IF inst.student_id # <<>>
    THEN [outcome |-> "ok", inst |-> inst, existing_count |-> None]
    ELSE IF HasAdmissionDate(inst) /\ inst.admission_date = None
    THEN [outcome |-> "AttributeError", inst |-> inst, existing_count |-> None]
    ELSE LET year == IF HasAdmissionDate(inst)
                     THEN DropTwo(Str(YearOf(Val(inst.admission_date))))
                     ELSE DropTwo(Str(YearOf(day)))
             class_code == ClassCode(inst.class_level)
             existing_count == ExistingCount(rows, year \o class_code)
         IN  [outcome |-> "ok",
              inst |-> [inst EXCEPT !.student_id =
                            FormatStudentId(year, class_code, existing_count)],
              existing_count |-> Some(existing_count)]

\* The write with no uniqueness constraint on student_id
DbSaveNoUnique(inst, rows, npk, day) ==
    LET adding == inst.pk = None \/ ~\E r \in rows : r.pk = Val(inst.pk)
        pk == IF inst.pk = None THEN npk ELSE Val(inst.pk)
        row == [pk |-> pk, class_level |-> inst.class_level,
                admission_date |-> IF adding THEN day ELSE Val(inst.admission_date),
                student_id |-> inst.student_id]
    IN  [outcome |-> "ok",
         rows |-> {r \in rows : r.pk # pk} \cup {row},
         nextPk |-> IF inst.pk = None THEN npk + 1 ELSE npk,
         inst |-> [inst EXCEPT !.pk = Some(pk),
                               !.admission_date = Some(row.admission_date)]]

\* super().save: UPDATE the row of the instance's pk, INSERT when the instance
\* has no pk or no row has it; auto_now_add sets admission_date on INSERT;
\* unique=True on student_id rejects a value another row holds.
DbSave(inst, rows, npk, day) ==
    LET adding == inst.pk = None \/ ~\E r \in rows : r.pk = Val(inst.pk)
        pk == IF inst.pk = None THEN npk ELSE Val(inst.pk)
        row == [pk |-> pk, class_level |-> inst.class_level,
                admission_date |-> IF adding THEN day ELSE Val(inst.admission_date),
                student_id |-> inst.student_id]
    IN  IF \E r \in rows : r.pk # pk /\ r.student_id = inst.student_id
        THEN [outcome |-> "IntegrityError", rows |-> rows, nextPk |-> npk,
              inst |-> inst]
        ELSE [outcome |-> "ok",
              rows |-> {r \in rows : r.pk # pk} \cup {row},
              nextPk |-> IF inst.pk = None THEN npk + 1 ELSE npk,
              inst |-> [inst EXCEPT !.pk = Some(pk),
                                    !.admission_date = Some(row.admission_date)]]

\* Learner.save as a whole
LearnerSave(inst, rows, npk, day) ==
    LET g == GenerateStudentId(inst, rows, day)
    IN  IF g.outcome # "ok"
        THEN [outcome |-> g.outcome, rows |-> rows, nextPk |-> npk, inst |-> g.inst]
        ELSE DbSave(g.inst, rows, npk, day)

\* Class levels the learners of the model are placed in: two of them share
\* the class code GRA.
LearnerClasses == {BEGINNER, GRADE1, GRADE2}

\* 2025-01-01 and 2026-01-01
LearnerDays == {0, 365}

\* A student ID typed in by the caller
ManualIds == {<<"2", "5", "B", "E", "G", "0", "0", "2">>}

\* Learner(class_level=c, ...) with or without admission_date and student_id
NewLearners(classes, days, ids) ==
    [pk : {None}, class_level : classes,
     admission_date : {None} \cup {Some(d) : d \in days},
     student_id : {<<>>} \cup ids]

\* Learner.objects.get(pk=...), then class_level reassigned or student_id blanked
LoadedLearners(rows, classes) ==
    UNION {{[pk |-> Some(r.pk), class_level |-> c,
             admission_date |-> Some(r.admission_date), student_id |-> s] :
               c \in classes, s \in {r.student_id, <<>>}} : r \in rows}

\* The class levels and days of the requests that edit and delete
EditClasses == {BEGINNER, GRADE1}

EditDays == {0}

\* The class level of the concurrent requests
RaceClasses == {BEGINNER}

Idle == [pc |-> "idle", given |-> NoInst, inst |-> NoInst, existing_count |-> None]

\* A request enters Learner.save: the ID generation with its count query.
BeginSave(p, inst) ==
    /\ proc[p].pc = "idle"
    /\ inst.pk = None =>
         nextPk + Cardinality({q \in Procs : proc[q].pc = "super_save"
                                              /\ proc[q].inst.pk = None}) <= MaxLearners
    /\ LET g == GenerateStudentId(inst, learners, today)
       IN  IF g.outcome = "ok"
           THEN /\ proc' = [proc EXCEPT ![p] = [pc |-> "super_save", given |-> inst,
                                                inst |-> g.inst,
                                                existing_count |-> g.existing_count]]
                /\ UNCHANGED last
           ELSE /\ last' = [op |-> "save", outcome |-> g.outcome, given |-> inst,
                            saved |-> g.inst]
                /\ UNCHANGED proc
    /\ UNCHANGED <<classLevels, terms, fees, learners, nextPk, today>>

\* The request reaches super().save: the row is written or rejected.
SuperSave(p) ==
    /\ proc[p].pc = "super_save"
    /\ LET w == DbSave(proc[p].inst, learners, nextPk, today)
       IN  /\ learners' = w.rows
           /\ nextPk' = w.nextPk
           /\ last' = [op |-> "save", outcome |-> w.outcome, given |-> proc[p].given,
                       saved |-> w.inst]
    /\ proc' = [proc EXCEPT ![p] = Idle]
    /\ UNCHANGED <<classLevels, terms, fees, today>>

\* Learner.save run from start to end with no other request in between
SeqSave(inst, cap) ==
    /\ \A p \in Procs : proc[p].pc = "idle"
    /\ inst.pk = None => nextPk <= cap
    /\ LET w == LearnerSave(inst, learners, nextPk, today)
       IN  /\ learners' = w.rows
           /\ nextPk' = w.nextPk
           /\ last' = [op |-> "save", outcome |-> w.outcome, given |-> inst,
                       saved |-> w.inst]
    /\ UNCHANGED <<classLevels, terms, fees, today, proc>>

\* Learner.delete
DeleteLearner(r) ==
    /\ r \in learners
    /\ learners' = learners \ {r}
    /\ last' = [op |-> "delete", outcome |-> "ok", given |-> NoInst, saved |-> NoInst]
    /\ UNCHANGED <<classLevels, terms, fees, nextPk, today, proc>>

\* The calendar moves on to a later day.
NextDay(d) ==
    /\ d > today
    /\ today' = d
    /\ UNCHANGED <<classLevels, terms, fees, learners, nextPk, proc, last>>

\* The class levels of the learners exist; no learner has been admitted.
LearnerInit ==
    /\ classLevels = {ClassLevelRow(c, 0, 0) : c \in LearnerClasses}
    /\ terms = {}
    /\ fees = {}
    /\ learners = {}
    /\ nextPk = 1
    /\ today = 0
    /\ proc = [p \in Procs |-> Idle]
    /\ last = [op |-> "none", outcome |-> "ok", given |-> NoInst, saved |-> NoInst]

\* Concurrent requests saving and deleting learners
Next ==
    \/ \E p \in Procs, i \in NewLearners(RaceClasses, EditDays, ManualIds) :
           BeginSave(p, i)
    \/ \E p \in Procs, i \in LoadedLearners(learners, RaceClasses) : BeginSave(p, i)
    \/ \E p \in Procs : SuperSave(p)
    \/ \E r \in learners : DeleteLearner(r)

Spec == LearnerInit /\ [][Next]_vars

\* One request at a time: admissions, edits and deletions
SeqNext ==
    \/ \E i \in NewLearners(EditClasses, EditDays, ManualIds) :
           SeqSave(i, MaxLearners)
    \/ \E i \in LoadedLearners(learners, EditClasses) : SeqSave(i, MaxLearners)
    \/ \E r \in learners : DeleteLearner(r)

SeqSpec == LearnerInit /\ [][SeqNext]_vars

\* One request at a time: admissions with the student ID left blank, no deletion
AdmitNext ==
    \/ \E i \in NewLearners(LearnerClasses, LearnerDays, {}) :
           SeqSave(i, MaxAdmitted)
    \/ \E d \in LearnerDays : NextDay(d)

AdmitSpec == LearnerInit /\ [][AdmitNext]_vars

\* One request at a time: admissions with the student ID left blank, and
\* deletions
ChurnNext ==
    \/ \E i \in NewLearners(LearnerClasses, EditDays, {}) : SeqSave(i, MaxAdmitted)
    \/ \E r \in learners : DeleteLearner(r)

ChurnSpec == LearnerInit /\ [][ChurnNext]_vars

---------------------------------------------------------------------------
(* ClassLevel saves *)

\* No class level is stored.
ClassInit ==
    /\ classLevels = {}
    /\ terms = {}
    /\ fees = {}
    /\ learners = {}
    /\ nextPk = 1
    /\ today = 0
    /\ proc = [p \in Procs |-> Idle]
    /\ last = [op |-> "none", outcome |-> "ok", given |-> NoInst, saved |-> NoInst]

\* Class levels created, renamed and repriced
ClassNext ==
    \E i \in ClassLevelInstances(classLevels, ClassNames, ClassAmounts) :
        SaveClassLevel(i)

ClassSpec == ClassInit /\ [][ClassNext]_vars

---------------------------------------------------------------------------
(* AcademicTerm *)

\* Term duration seems too short (less than 60 days)
MinTermDays == 60

\* Term duration seems too long (more than 120 days)
MaxTermDays == 120

\* choice[0] for choice in TERM_CHOICES
TERM_CHOICES == <<"term1", "term2", "term3">>

\* clean with a term of exactly the minimum duration rejected as too short
TermCleanStrict(inst) ==
    IF inst.end_date <= inst.start_date
    THEN [outcome |-> "ValidationError", field |-> "end_date", message |-> "not after start"]
    ELSE LET duration == inst.end_date - inst.start_date
         IN  IF duration <= MinTermDays
             THEN [outcome |-> "ValidationError", field |-> "end_date",
                   message |-> "too short"]
             ELSE IF duration > MaxTermDays
             THEN [outcome |-> "ValidationError", field |-> "end_date",
                   message |-> "too long"]
             ELSE [outcome |-> "ok", field |-> "", message |-> ""]

\* AcademicTerm.clean, for an instance with both dates set: the field-scoped
\* ValidationError it raises, if any.
TermClean(inst) ==
    IF inst.end_date <= inst.start_date
    THEN [outcome |-> "ValidationError", field |-> "end_date", message |-> "not after start"]
    ELSE LET duration == inst.end_date - inst.start_date
         IN  IF duration < MinTermDays
             THEN [outcome |-> "ValidationError", field |-> "end_date",
                   message |-> "too short"]
             ELSE IF duration > MaxTermDays
             THEN [outcome |-> "ValidationError", field |-> "end_date",
                   message |-> "too long"]
             ELSE [outcome |-> "ok", field |-> "", message |-> ""]

\* super().save of an AcademicTerm: INSERT for a new instance, UPDATE of its
\* row otherwise; unique=True on name rejects a second row of a name.
TermDbSave(inst, rows) ==
    IF inst.adding /\ \E r \in rows : r.name = inst.name
    THEN [outcome |-> "IntegrityError", field |-> "name", message |-> "", rows |-> rows]
    ELSE [outcome |-> "ok", field |-> "", message |-> "",
          rows |-> {r \in rows : r.name # inst.name}
                     \cup {[name |-> inst.name, start_date |-> inst.start_date,
                            end_date |-> inst.end_date]}]

\* AcademicTerm.save: clean, then super().save
AcademicTermSave(inst, rows) ==
    LET c == TermClean(inst)
    IN  IF c.outcome # "ok"
        THEN [outcome |-> c.outcome, field |-> c.field, message |-> c.message,
              rows |-> rows]
        ELSE TermDbSave(inst, rows)

\* AcademicTerm.get_term_status
GetTermStatus(term, day) ==
    IF day < term.start_date THEN "upcoming"
    ELSE IF day > term.end_date THEN "ended"
    ELSE "active"

\* AcademicTerm.days_remaining
DaysRemaining(term, day) ==
    IF day > term.end_date THEN None ELSE Some(term.end_date - day)

\* AcademicTerm(name=n, start_date=s, end_date=e), or a stored term with its
\* dates reassigned
TermInstances(rows, names, starts, durations) ==
    {[adding |-> ~\E r \in rows : r.name = n, name |-> n, start_date |-> s,
      end_date |-> s + d] : n \in names, s \in starts, d \in durations}
      \cup
    {[adding |-> TRUE, name |-> n, start_date |-> s, end_date |-> s + d] :
        n \in names, s \in starts, d \in durations}

\* AcademicTerm.save called on the instance
SaveTerm(inst) ==
    /\ LET w == AcademicTermSave(inst, terms)
       IN  /\ terms' = w.rows
           /\ last' = [op |-> "term_save", outcome |-> w.outcome, field |-> w.field,
                       given |-> inst]
    /\ UNCHANGED <<classLevels, fees, learners, nextPk, today, proc>>

\* Latest start date of the terms tried
MaxStart == 1

\* Durations at and around the limits of clean
TermDurations ==
    {0 - 1, 0, MinTermDays - 1, MinTermDays, MinTermDays + 1, MaxTermDays,
     MaxTermDays + 1}

\* Days the calendar stops at: the first day, the earliest end of a term, and
\* a day after the end of every term
TermDays == {0, MinTermDays, MaxStart + MaxTermDays + 1}

TermInit ==
    /\ classLevels = {}
    /\ terms = {}
    /\ fees = {}
    /\ learners = {}
    /\ nextPk = 1
    /\ today = 0
    /\ proc = [p \in Procs |-> Idle]
    /\ last = [op |-> "none", outcome |-> "ok", given |-> NoInst, saved |-> NoInst]

\* Terms saved and dated as the calendar moves on
TermNext ==
    \/ \E i \in TermInstances(terms, {"term1", "term2"}, 0..MaxStart, TermDurations) :
           SaveTerm(i)
    \/ \E d \in TermDays : NextDay(d)

TermSpec == TermInit /\ [][TermNext]_vars

---------------------------------------------------------------------------
(* ClassTermFees and the fees of a learner *)

\* The total with the activity fee left out
GetTotalFeesNoActivity(f) == f.tuition_fee + f.meal_fee

\* ClassTermFees.get_total_fees
GetTotalFees(f) == f.tuition_fee + f.meal_fee + f.activity_fee

\* The save of a new fee row with no uniqueness constraint on the table
FeesDbSaveNoUnique(inst, rows) == [outcome |-> "ok", rows |-> rows \cup {inst}]

\* ClassTermFees(...).save of a new row: unique_together rejects a second row
\* of a (class_level, academic_term) pair.
FeesDbSave(inst, rows) ==
    IF \E r \in rows : /\ r.class_level = inst.class_level
                       /\ r.academic_term = inst.academic_term
    THEN [outcome |-> "IntegrityError", rows |-> rows]
    ELSE [outcome |-> "ok", rows |-> rows \cup {inst}]

\* The admission term test with the two bounds excluded
IsAdmissionTermStrict(learner, term) ==
    term.start_date < learner.admission_date /\ learner.admission_date < term.end_date

\* Learner.is_admission_term
IsAdmissionTerm(learner, term) ==
    term.start_date <= learner.admission_date /\ learner.admission_date <= term.end_date

\* get_term_fees answering zero where no fee row exists
GetTermFeesZero(learner, term, feeRows, classRows) ==
    LET found == {f \in feeRows : /\ f.class_level = learner.class_level
                                  /\ f.academic_term = term.name}
    IN  IF found = {}
        THEN [outcome |-> "ok", value |-> Some(0)]
        ELSE LET fees_row == CHOOSE f \in found : TRUE
                 class_level == CHOOSE c \in classRows : c.name = learner.class_level
                 term_fees == GetTotalFees(fees_row)
             IN  IF IsAdmissionTerm(learner, term)
                 THEN [outcome |-> "ok",
                       value |-> Some(term_fees + (class_level.admission_fee
                                                     + class_level.assessment_fee))]
                 ELSE [outcome |-> "ok", value |-> Some(term_fees)]

\* Learner.get_term_fees: the amount, None when ClassTermFees.objects.get
\* raises DoesNotExist; any other exception of get is not caught.
GetTermFees(learner, term, feeRows, classRows) ==
    LET found == {f \in feeRows : /\ f.class_level = learner.class_level
                                  /\ f.academic_term = term.name}
    IN  IF found = {}
        THEN [outcome |-> "ok", value |-> None]
        ELSE IF Cardinality(found) > 1
        THEN [outcome |-> "MultipleObjectsReturned", value |-> None]
        ELSE LET fees_row == CHOOSE f \in found : TRUE
                 class_level == CHOOSE c \in classRows : c.name = learner.class_level
                 term_fees == GetTotalFees(fees_row)
             IN  IF IsAdmissionTerm(learner, term)
                 THEN [outcome |-> "ok",
                       value |-> Some(term_fees + (class_level.admission_fee
                                                     + class_level.assessment_fee))]
                 ELSE [outcome |-> "ok", value |-> Some(term_fees)]

\* The class levels with a fee schedule in the model
FeeClasses == {BEGINNER, PP1}

\* tuition, meal and activity fee in cents: all zero, or 1000.00, 200.50, 0.00
FeeAmounts == {<<0, 0, 0>>, <<100000, 20050, 0>>}

\* ClassTermFees(class_level=c, academic_term=t, ...) for stored c and t
FeesInstances ==
    {[class_level |-> c.name, academic_term |-> t.name, tuition_fee |-> a[1],
      meal_fee |-> a[2], activity_fee |-> a[3]] :
        c \in classLevels, t \in terms, a \in FeeAmounts}

\* A new fee row is saved.
InsertFees(inst) ==
    /\ LET w == FeesDbSave(inst, fees)
       IN  /\ fees' = w.rows
           /\ last' = [op |-> "fees_save", outcome |-> w.outcome, given |-> inst]
    /\ UNCHANGED <<classLevels, terms, learners, nextPk, today, proc>>

\* default=Decimal("0.00") of meal_fee and of activity_fee, in cents
MealFeeDefault == 0

ActivityFeeDefault == 0

\* ClassTermFees(**kwargs): a fee left out of the keyword arguments takes the
\* field's default.
NewClassTermFees(kwargs) ==
    [class_level |-> kwargs.class_level, academic_term |-> kwargs.academic_term,
     tuition_fee |-> kwargs.tuition_fee,
     meal_fee |-> IF kwargs.meal_fee = None THEN MealFeeDefault
                  ELSE Val(kwargs.meal_fee),
     activity_fee |-> IF kwargs.activity_fee = None THEN ActivityFeeDefault
                      ELSE Val(kwargs.activity_fee)]

\* tuition, meal and activity fee in cents: 1000.00, 200.50, 15.25
CreateAmounts == {<<100000, 20050, 1525>>}

\* Keyword arguments for a stored class level among the given names and a
\* stored term, with meal_fee and activity_fee both given or both left out
FeesKwargs(names) ==
    {[class_level |-> c.name, academic_term |-> t.name, tuition_fee |-> a[1],
      meal_fee |-> Some(a[2]), activity_fee |-> Some(a[3])] :
        c \in {x \in classLevels : x.name \in names}, t \in terms, a \in CreateAmounts}
      \cup
    {[class_level |-> c.name, academic_term |-> t.name, tuition_fee |-> a[1],
      meal_fee |-> None, activity_fee |-> None] :
        c \in {x \in classLevels : x.name \in names}, t \in terms, a \in CreateAmounts}

\* ClassTermFees.objects.create(**kwargs)
CreateFees(kwargs) ==
    /\ LET inst == NewClassTermFees(kwargs)
           w == FeesDbSave(inst, fees)
       IN  /\ fees' = w.rows
           /\ last' = [op |-> "fees_create", outcome |-> w.outcome, kwargs |-> kwargs,
                       given |-> inst]
    /\ UNCHANGED <<classLevels, terms, learners, nextPk, today, proc>>

\* A fee row is deleted.
DeleteFees(row) ==
    /\ row \in fees
    /\ fees' = fees \ {row}
    /\ last' = [op |-> "fees_delete", outcome |-> "ok", given |-> row]
    /\ UNCHANGED <<classLevels, terms, learners, nextPk, today, proc>>

\* The class levels exist with their one-time fees (in cents); nothing else
\* is stored.
FeeInit ==
    /\ classLevels = {ClassLevelRow(BEGINNER, 50000, 25000), ClassLevelRow(PP1, 0, 0)}
    /\ terms = {}
    /\ fees = {}
    /\ learners = {}
    /\ nextPk = 1
    /\ today = 0
    /\ proc = [p \in Procs |-> Idle]
    /\ last = [op |-> "none", outcome |-> "ok", given |-> NoInst, saved |-> NoInst]

\* Days the calendar stops at while fees are set: the ends of the terms tried
FeeDays == {0, MinTermDays, MinTermDays + 1}

\* Terms and fee rows saved, one learner admitted with a typed-in student ID
FeeNext ==
    \/ \E i \in TermInstances(terms, {"term1"}, {0}, {MinTermDays}) : SaveTerm(i)
    \/ \E i \in TermInstances(terms, {"term2"}, {MinTermDays, MinTermDays + 1},
                              {MinTermDays}) : SaveTerm(i)
    \/ \E i \in FeesInstances : InsertFees(i)
    \/ \E k \in FeesKwargs({BEGINNER}) : CreateFees(k)
    \/ \E r \in fees : DeleteFees(r)
    \/ \E i \in NewLearners(FeeClasses, {}, ManualIds) : SeqSave(i, 1)
    \/ \E d \in FeeDays : NextDay(d)

FeeSpec == FeeInit /\ [][FeeNext]_vars

---------------------------------------------------------------------------
(* Learner ages *)

\* datetime.date(year, month, day)
Date(y, m, d) == [year |-> y, month |-> m, day |-> d]

IsLeapYear(y) == (y % 4 = 0 /\ y % 100 # 0) \/ y % 400 = 0

DaysInMonth(y, m) ==
    IF m = 2 THEN (IF IsLeapYear(y) THEN 29 ELSE 28)
    ELSE IF m \in {4, 6, 9, 11} THEN 30 ELSE 31

\* Every date of the given years
DatesOf(years) ==
    UNION {UNION {{Date(y, m, d) : d \in 1..DaysInMonth(y, m)} : m \in 1..12} : y \in years}

\* Python's < on 2-tuples of integers
TupleLess(a, b) == a[1] < b[1] \/ (a[1] = b[1] /\ a[2] < b[2])

\* The age with the birthday itself still counted as not reached
GetAgeAsOfDateInclusive(date_of_birth, as_of_date) ==
    LET age == as_of_date.year - date_of_birth.year
    IN  IF    TupleLess(<<as_of_date.month, as_of_date.day>>,
                        <<date_of_birth.month, date_of_birth.day>>)
           \/ <<as_of_date.month, as_of_date.day>> =
                        <<date_of_birth.month, date_of_birth.day>>
        THEN age - 1
        ELSE age

\* Learner._get_age_as_of_date
GetAgeAsOfDate(date_of_birth, as_of_date) ==
    LET age == as_of_date.year - date_of_birth.year
    IN  IF TupleLess(<<as_of_date.month, as_of_date.day>>,
                     <<date_of_birth.month, date_of_birth.day>>)
        THEN age - 1
        ELSE age

\* Learner.age_by_june_first: year is None or holds a year
AgeByJuneFirst(date_of_birth, year, now) ==
    LET y == IF year = None THEN YearOf(now) ELSE Val(year)
        june_first == Date(y, 6, 1)
    IN  GetAgeAsOfDate(date_of_birth, june_first)

\* Dates of birth: mid-year, a leap day, the last and the first day of a year,
\* the first of June, and one later than some of the reference dates
BirthDates ==
    {Date(2020, 6, 15), Date(2020, 2, 29), Date(2019, 12, 31), Date(2021, 1, 1),
     Date(2020, 6, 1), Date(2025, 3, 10)}

\* Reference dates: every day of a leap year and of the two years after it
ReferenceDates == DatesOf({2024, 2025, 2026})

\* The year argument of age_by_june_first: left out, or a year
JuneYears == {None, Some(2025), Some(2026)}

\* Values of the calendar's "today": a day of 2025 and a day of 2026
AgeDays == {0, 365}

\* A learner's date of birth and a reference date are picked.
AgeInit ==
    /\ classLevels = {}
    /\ terms = {}
    /\ fees = {}
    /\ learners = {}
    /\ nextPk = 1
    /\ today \in AgeDays
    /\ proc = [p \in Procs |-> Idle]
    /\ last \in {[op |-> "age_input", date_of_birth |-> b, as_of_date |-> r] :
                     b \in BirthDates, r \in ReferenceDates}

\* learner._get_age_as_of_date(as_of_date)
AgeAsOfDate ==
    /\ last.op = "age_input"
    /\ last' = [op |-> "age_as_of_date", date_of_birth |-> last.date_of_birth,
                as_of_date |-> last.as_of_date,
                age |-> GetAgeAsOfDate(last.date_of_birth, last.as_of_date)]
    /\ UNCHANGED <<classLevels, terms, fees, learners, nextPk, today, proc>>

\* learner.age_by_june_first(year)
AgeJuneFirst(year) ==
    /\ last.op = "age_input"
    /\ last' = [op |-> "age_by_june_first", date_of_birth |-> last.date_of_birth,
                year |-> year,
                age |-> AgeByJuneFirst(last.date_of_birth, year, today)]
    /\ UNCHANGED <<classLevels, terms, fees, learners, nextPk, today, proc>>

AgeNext ==
    \/ AgeAsOfDate
    \/ \E y \in JuneYears : AgeJuneFirst(y)

AgeSpec == AgeInit /\ [][AgeNext]_vars

---------------------------------------------------------------------------
(* Claims about Learner.save *)

\* The year+class-code prefix and the sequence digits of a generated ID
IdPrefix(sid) == SubSeq(sid, 1, 5)

IdSequence(sid) == SubSeq(sid, 6, Len(sid))

\* C1: with one save at a time and no deletion, every learner created with a
\* blank student_id receives an ID, its sequence number is the next one among
\* the learners of its admission year and class code (1, 2, 3, ...), and no two
\* learners hold the same student_id.
C1_SequentialIds ==
    /\ last.op = "save" => last.outcome = "ok"
    /\ \A r \in learners :
         LET peers == {q \in learners :
                         /\ YearOf(q.admission_date) = YearOf(r.admission_date)
                         /\ ClassCode(q.class_level) = ClassCode(r.class_level)
                         /\ q.pk <= r.pk}
         IN  IdSequence(r.student_id) = PadThree(Str(Cardinality(peers)))
    /\ \A r1, r2 \in learners : r1.student_id = r2.student_id => r1.pk = r2.pk

\* The request p is between its ID generation and its write.
Generated(p) == proc[p].pc = "super_save" /\ proc[p].given.student_id = <<>>

\* C2: a save that counts the rows of a prefix while another save, which
\* counted the same rows, has not written yet is given the same count and the
\* same student_id, the prefix followed by count + 1.
C2_RaceDuplicates ==
    [][\A p, q \in Procs :
         LET prefix == IdPrefix(proc[p].inst.student_id)
             stored == Cardinality({r \in learners : StartsWith(r.student_id, prefix)})
         IN  ( /\ p # q
               /\ Generated(p)
               /\ proc[p].existing_count = Some(stored)
               /\ proc[q].pc = "idle"
               /\ proc'[q].pc = "super_save"
               /\ proc'[q].given.student_id = <<>>
               /\ IdPrefix(proc'[q].inst.student_id) = prefix )
             => /\ proc'[q].existing_count = Some(stored)
                /\ proc'[q].inst.student_id = proc[p].inst.student_id
                /\ proc'[q].inst.student_id = prefix \o PadThree(Str(stored + 1))]_vars

\* Two saves in flight hold the same generated student_id.
C2_Witness ==
    \E p, q \in Procs :
        /\ p # q
        /\ Generated(p)
        /\ Generated(q)
        /\ proc[p].inst.student_id = proc[q].inst.student_id

\* C3: no two stored learners have the same student_id, and a write of a
\* student_id that another stored row holds ends in an IntegrityError and
\* leaves the table as it was.
C3_UniqueStudentId ==
    /\ [](\A r1, r2 \in learners : r1.student_id = r2.student_id => r1.pk = r2.pk)
    /\ [][\A p \in Procs :
            ( /\ proc[p].pc = "super_save"
              /\ proc'[p].pc = "idle"
              /\ \E r \in learners : /\ r.student_id = proc[p].inst.student_id
                                     /\ Some(r.pk) # proc[p].inst.pk )
            => /\ last'.outcome = "IntegrityError"
               /\ learners' = learners]_vars

\* A save that generated its ID was rejected by the uniqueness constraint.
C3_Witness ==
    /\ last.op = "save"
    /\ last.outcome = "IntegrityError"
    /\ last.given.student_id = <<>>
    /\ \E r \in learners : r.student_id = last.saved.student_id

\* C4: a save generates a student_id only for an instance that has none: the
\* student_id of a stored learner is the same after any step, a save of that
\* learner with its class level changed included, unless the step saves that
\* learner with its student_id blanked.
C4_IdAssignedOnce ==
    [][\A r \in learners : \A r2 \in learners' :
         ( /\ r2.pk = r.pk
           /\ ~( /\ last'.op = "save"
                 /\ last'.given.pk = Some(r.pk)
                 /\ last'.given.student_id = <<>> ) )
         => r2.student_id = r.student_id]_vars

\* A learner admitted as a beginner was saved again in grade 1 and kept its ID.
C4_Witness ==
    /\ last.op = "save"
    /\ last.outcome = "ok"
    /\ last.given.pk # None
    /\ last.given.class_level = GRADE1
    /\ last.given.student_id = <<"2", "5", "B", "E", "G", "0", "0", "1">>
    /\ \E r \in learners : /\ Some(r.pk) = last.given.pk
                           /\ r.class_level = GRADE1
                           /\ r.student_id = last.given.student_id

\* C5: a save that generates the student ID completes; the ID's two-digit year
\* is the admission year, or the current year when the instance's
\* admission_date is unset.
C5_YearFallback ==
    (last.op = "save" /\ last.given.student_id = <<>>)
    => /\ last.outcome = "ok"
       /\ SubSeq(last.saved.student_id, 1, 2) =
            DropTwo(Str(YearOf(IF last.given.admission_date = None
                               THEN Val(last.saved.admission_date)
                               ELSE Val(last.given.admission_date))))

---------------------------------------------------------------------------
(* Claims about the fees of a learner *)

\* The fee rows of the learner's class level for the term
FeeRowsOf(l, t) ==
    {f \in fees : f.class_level = l.class_level /\ f.academic_term = t.name}

\* The admission and assessment fee of the learner's class level
OneTimeFees(l) ==
    LET c == CHOOSE c \in classLevels : c.name = l.class_level
    IN  c.admission_fee + c.assessment_fee

\* C6: where a fee row exists for the learner's class level and the term,
\* get_term_fees is the row's tuition + meal + activity fee, plus the class
\* level's admission and assessment fee when start_date <= admission_date <=
\* end_date, and the row's total alone for any other term.
C6_TermFees ==
    \A l \in learners : \A t \in terms : \A f \in FeeRowsOf(l, t) :
        GetTermFees(l, t, fees, classLevels) =
            [outcome |-> "ok",
             value |-> Some(IF t.start_date <= l.admission_date
                               /\ l.admission_date <= t.end_date
                            THEN f.tuition_fee + f.meal_fee + f.activity_fee
                                   + OneTimeFees(l)
                            ELSE f.tuition_fee + f.meal_fee + f.activity_fee)]

\* A learner admitted on the last day of a term owes the one-time fees for it
\* and the schedule total alone for another term.
C6_Witness ==
    \E l \in learners : \E t1, t2 \in terms :
        /\ l.admission_date = t1.end_date
        /\ l.admission_date < t2.start_date
        /\ OneTimeFees(l) > 0
        /\ \E f \in FeeRowsOf(l, t1) :
             /\ GetTotalFees(f) > 0
             /\ GetTermFees(l, t1, fees, classLevels).value
                  = Some(GetTotalFees(f) + OneTimeFees(l))
        /\ \E f \in FeeRowsOf(l, t2) :
             GetTermFees(l, t2, fees, classLevels).value = Some(GetTotalFees(f))

\* get_term_fees for the term includes the learner's one-time fees.
IncludesOneTimeFees(l, t) ==
    \E f \in FeeRowsOf(l, t) :
        /\ OneTimeFees(l) > 0
        /\ GetTermFees(l, t, fees, classLevels).value
             = Some(GetTotalFees(f) + OneTimeFees(l))

\* C7: for a learner, no two stored terms both have get_term_fees include the
\* one-time admission and assessment fee.
C7_OneTimeFeesOnce ==
    \A l \in learners : \A t1, t2 \in terms :
        (IncludesOneTimeFees(l, t1) /\ IncludesOneTimeFees(l, t2)) => t1 = t2

\* C8: get_term_fees raises nothing, returns None when no fee row exists for
\* the learner's class level and the term, and an amount when one exists.
C8_NoSchedule ==
    \A l \in learners : \A t \in terms :
        LET r == GetTermFees(l, t, fees, classLevels)
        IN  /\ r.outcome = "ok"
            /\ FeeRowsOf(l, t) = {} => r.value = None
            /\ FeeRowsOf(l, t) # {} => r.value # None

\* A learner has no schedule for one term and an all-zero one for another.
C8_Witness ==
    \E l \in learners : \E t1, t2 \in terms :
        /\ FeeRowsOf(l, t1) = {}
        /\ GetTermFees(l, t1, fees, classLevels).value = None
        /\ FeeRowsOf(l, t2) # {}
        /\ GetTermFees(l, t2, fees, classLevels).value = Some(0)

---------------------------------------------------------------------------
(* Claims about AcademicTerm *)

\* The duration passes clean.
DurationAccepted(inst) ==
    /\ MinTermDays <= inst.end_date - inst.start_date
    /\ inst.end_date - inst.start_date <= MaxTermDays

\* C9: every stored term ends after it starts and lasts 60 to 120 days; a save
\* fails with a ValidationError on end_date, the table unchanged, exactly when
\* the duration is outside 60..120, and a save of a term of 60 to 120 days
\* (the two limits included) stores it, unless it is a new term under a name
\* already stored.
C9_TermDuration ==
    /\ [](\A t \in terms : /\ t.end_date > t.start_date
                           /\ DurationAccepted(t))
    /\ [][(today' = today /\ last'.op = "term_save") =>
            LET inst == last'.given
                row == [name |-> inst.name, start_date |-> inst.start_date,
                        end_date |-> inst.end_date]
            IN  /\ ~DurationAccepted(inst) =>
                     /\ last'.outcome = "ValidationError"
                     /\ last'.field = "end_date"
                     /\ terms' = terms
                /\ DurationAccepted(inst) => last'.outcome # "ValidationError"
                /\ (DurationAccepted(inst)
                      /\ ~(inst.adding /\ \E r \in terms : r.name = inst.name))
                   => /\ last'.outcome = "ok"
                      /\ row \in terms'
                /\ terms' # terms => DurationAccepted(inst)]_vars

\* Terms of exactly 60 and exactly 120 days are stored and a term of 59 days
\* was just rejected.
C9_Witness ==
    /\ \E t \in terms : t.end_date - t.start_date = MinTermDays
    /\ \E t \in terms : t.end_date - t.start_date = MaxTermDays
    /\ last.op = "term_save"
    /\ last.outcome = "ValidationError"
    /\ last.given.end_date - last.given.start_date = MinTermDays - 1

\* C10: days_remaining is None once the term has ended, end_date - today
\* otherwise, and negative while the term has not started.
C10_DaysRemaining ==
    \A t \in terms :
        LET r == DaysRemaining(t, today)
        IN  /\ today > t.end_date => r = None
            /\ today <= t.end_date => r = Some(t.end_date - today)
            /\ today < t.start_date => (r # None /\ Val(r) < 0)

---------------------------------------------------------------------------
(* Claims about ClassLevel *)

\* C11: every stored class level has class_order 1, 2, 3, 4, 5 for beginner,
\* pp1, pp2, grade1, grade2 and 999 for a name outside the enumeration,
\* whatever saves came before, so class_order increases strictly along the
\* progression.
C11_ClassOrder ==
    \A c \in classLevels :
        /\ c.name = BEGINNER => c.class_order = 1
        /\ c.name = PP1 => c.class_order = 2
        /\ c.name = PP2 => c.class_order = 3
        /\ c.name = GRADE1 => c.class_order = 4
        /\ c.name = GRADE2 => c.class_order = 5
        /\ c.name \notin {BEGINNER, PP1, PP2, GRADE1, GRADE2} => c.class_order = 999
        /\ \A d \in classLevels : \A i, j \in 1..Len(MODEL_CHOICES) :
             (c.name = MODEL_CHOICES[i] /\ d.name = MODEL_CHOICES[j] /\ i < j)
             => c.class_order < d.class_order

\* A stored class level was renamed to a later one of the progression and
\* saved with the class_order it was loaded with, a level outside the
\* enumeration is stored, and so is a level saved with non-zero fees.
C11_Witness ==
    /\ last.op = "class_save"
    /\ last.outcome = "ok"
    /\ last.given.loaded = Some(BEGINNER)
    /\ last.given.name = GRADE2
    /\ last.given.class_order = Some(1)
    /\ \E c \in classLevels : c.name = GRADE2 /\ c.class_order = 5
    /\ \E c \in classLevels : c.name = GRADE3 /\ c.class_order = 999
    /\ \E c \in classLevels : c.name = PP1 /\ c.admission_fee = 50000

---------------------------------------------------------------------------
(* Claims about ClassTermFees *)

\* C12: for every stored fee row, with non-negative amounts held in whole
\* cents, get_total_fees is exactly tuition_fee + meal_fee + activity_fee
\* (1000.00 + 200.50 + 15.25 is 1215.75, to the cent), and a row created
\* without meal_fee and activity_fee holds zero for both, so that its total is
\* its tuition fee.  Sums of three 10-digit amounts stay inside Decimal's
\* 28-digit context, so whole-cent addition is what the code computes.
C12_TotalFees ==
    /\ \A f \in fees :
        /\ f.tuition_fee >= 0 /\ f.meal_fee >= 0 /\ f.activity_fee >= 0
        /\ GetTotalFees(f) = f.tuition_fee + f.meal_fee + f.activity_fee
        /\ <<f.tuition_fee, f.meal_fee, f.activity_fee>> = <<100000, 20050, 1525>>
               => GetTotalFees(f) = 121575
    /\ (last.op = "fees_create" /\ last.outcome = "ok") =>
        /\ last.given \in fees
        /\ last.kwargs.meal_fee = None => last.given.meal_fee = 0
        /\ last.kwargs.activity_fee = None => last.given.activity_fee = 0
        /\ last.kwargs.meal_fee # None => last.given.meal_fee = Val(last.kwargs.meal_fee)
        /\ last.kwargs.activity_fee # None =>
               last.given.activity_fee = Val(last.kwargs.activity_fee)
        /\ (last.kwargs.meal_fee = None /\ last.kwargs.activity_fee = None) =>
               GetTotalFees(last.given) = last.kwargs.tuition_fee

\* A row was created without meal_fee and activity_fee and stored, next to a
\* stored row that carries all three amounts.
C12_Witness ==
    /\ last.op = "fees_create"
    /\ last.outcome = "ok"
    /\ last.kwargs.meal_fee = None
    /\ last.kwargs.activity_fee = None
    /\ last.kwargs.tuition_fee = 100000
    /\ last.given \in fees
    /\ \E f \in fees : f.meal_fee = 20050 /\ f.activity_fee = 1525

---------------------------------------------------------------------------
(* Claims about Learner ages *)

\* C13: for every date of birth and every reference date,
\* _get_age_as_of_date is reference.year - birth.year, less one exactly when
\* the reference's (month, day) comes before the birth's (month, day) in the
\* calendar; on the birthday the new year of age counts and on the day before
\* it does not (born 2020-06-15: 4 on 2025-06-01, 5 on 2025-06-15, 4 on
\* 2025-06-14), and age_by_june_first is that age on the first of June.
C13_AgeAsOfDate ==
    /\ last.op = "age_as_of_date" =>
        LET b == last.date_of_birth
            r == last.as_of_date
            earlier == r.month * 100 + r.day < b.month * 100 + b.day
        IN  /\ earlier => last.age = r.year - b.year - 1
            /\ ~earlier => last.age = r.year - b.year
            /\ (r.month = b.month /\ r.day = b.day) => last.age = r.year - b.year
            /\ (b = Date(2020, 6, 15) /\ r = Date(2025, 6, 1)) => last.age = 4
            /\ (b = Date(2020, 6, 15) /\ r = Date(2025, 6, 14)) => last.age = 4
            /\ (b = Date(2020, 6, 15) /\ r = Date(2025, 6, 15)) => last.age = 5
    /\ last.op = "age_by_june_first" =>
        LET b == last.date_of_birth
            y == IF last.year = None THEN YearOf(today) ELSE Val(last.year)
            earlier == 601 < b.month * 100 + b.day
        IN  last.age = y - b.year - (IF earlier THEN 1 ELSE 0)

\* The age of the learner born on 2020-06-15 was computed for the birthday
\* in 2025.
C13_Witness ==
    /\ last.op = "age_as_of_date"
    /\ last.date_of_birth = Date(2020, 6, 15)
    /\ last.as_of_date = Date(2025, 6, 15)
    /\ last.age = 5

---------------------------------------------------------------------------
(* Claims about the uniqueness of fee rows *)

\* The fee rows of a (class_level, academic_term) pair
FeeRowsOfPair(c, t) == {f \in fees : f.class_level = c /\ f.academic_term = t}

\* C14: after any sequence of fee row insertions and deletions at most one
\* fee row exists per (class_level, academic_term) pair and the lookup of
\* get_term_fees never finds more than one row; an insertion whose pair is
\* already stored is rejected with the store unchanged, and any other
\* insertion adds its row.
C14_UniqueFeeRows ==
    /\ [](/\ \A f, g \in fees :
               (f.class_level = g.class_level /\ f.academic_term = g.academic_term)
                   => f = g
           /\ \A l \in learners, t \in terms :
               /\ Cardinality(FeeRowsOfPair(l.class_level, t.name)) <= 1
               /\ GetTermFees(l, t, fees, classLevels).outcome = "ok")
    /\ [][((last' # last \/ fees' # fees) /\ last'.op \in {"fees_save", "fees_create"})
            => IF FeeRowsOfPair(last'.given.class_level, last'.given.academic_term) # {}
               THEN last'.outcome = "IntegrityError" /\ fees' = fees
               ELSE last'.outcome = "ok" /\ fees' = fees \cup {last'.given}]_vars

\* The insertion of a second row for a stored pair, with other amounts, was
\* rejected, and the lookup for a stored learner of that class finds the
\* stored row.
C14_Witness ==
    /\ last.op = "fees_save"
    /\ last.outcome = "IntegrityError"
    /\ last.given \notin fees
    /\ FeeRowsOfPair(last.given.class_level, last.given.academic_term) # {}
    /\ \E l \in learners, t \in terms :
           /\ l.class_level = last.given.class_level
           /\ t.name = last.given.academic_term
           /\ GetTermFees(l, t, fees, classLevels).value # None

---------------------------------------------------------------------------
(* Claims about learner IDs and deletions *)

\* C15: with one request at a time and deletions allowed, the student_id that
\* Learner.save generates for a new learner is held by no stored learner, so
\* the save of a new learner with a generated ID is never rejected.
C15_GeneratedIdIsFresh ==
    (/\ last.op = "save"
     /\ last.given.pk = None
     /\ last.given.student_id = <<>>
     /\ last.saved.student_id # <<>>)
        => /\ last.outcome = "ok"
           /\ \A r \in learners :
                  r.student_id = last.saved.student_id => Some(r.pk) = last.saved.pk

=============================================================================
